---- MODULE Spec2Model ----
(***************************************************************************)
(* Model of gcs_jupyter_plugin/services/gcs.py, Client.list_files: the     *)
(* delimiter-bounded listing of a bucket level, the second (deep) listing  *)
(* that dates the pseudo-folders, and the except clause around both; and   *)
(* of the write operations of the same Client: create_folder, delete_file, *)
(* rename_file and save_content.                                           *)
(*                                                                         *)
(* Object names are Python strings, modelled as sequences of one-character *)
(* strings so that slicing, split('/', 1) and concatenation are computed   *)
(* as the code computes them.  A datetime is a day number 1..MaxTime and   *)
(* None is 0 (a datetime is never falsy, None always is).                  *)
(***************************************************************************)
EXTENDS Naturals, Sequences, FiniteSets, TLC

VARIABLES
    store,                  \* the bucket's objects: set of [name, updated]
    prefix,                 \* the prefix argument of list_files
    pc,                     \* position of the call inside list_files
    files,                  \* files = list(blobs): the direct items, in order
    prefixes,               \* blobs.prefixes, in iteration order
    deepAll,                \* every blob the deep listing returns
    deepRest,               \* blobs of the deep listing not yet iterated
    scanned,                \* blobs of the deep listing iterated so far, in order
    prefix_latest_updated,  \* the dict of the same name
    calls,                  \* the client.list_blobs calls made, in order
    logged,                 \* number of self.log.exception calls
    caught,                 \* what the except clause caught: "none", a store
                            \* failure of the "shallow" or the "deep" listing,
                            \* or the TypeError ("type") of a None comparison
    result,                 \* what list_files gave back to its caller
    bucket_exists,          \* whether the store knows the bucket at all
    cancel_at,              \* where the request was when its caller asked to
                            \* cancel it, "none" while nobody asked
    cur,                    \* which of two list_files requests is running
    parked,                 \* the locals of the request that is not running
    o_op,                   \* the write operation called, and its arguments
    o_pc,                   \* position of the call inside the write operation
    o_trace,                \* the store methods the write operation called
    o_logged,               \* number of self.log.exception calls it made
    o_result,               \* what the write operation gave back
    o_raised,               \* the message of the exception the store raised
                            \* during the write operation, "" when it raised none
    client,                 \* a construction of Client: the credentials given,
                            \* and what came of it
    lb,                     \* a list_buckets call: the store's bucket listing,
                            \* and what the call gave back
    gf,                     \* a get_file call: the object's bytes, the format
                            \* asked for, and what the call gave back
    http                    \* a request to one of the controllers: its
                            \* parameters, and the HTTP response so far

\* the state of the write operations
ovars == <<o_op, o_pc, o_trace, o_logged, o_result, o_raised>>

\* the construction, the read operations and the controllers
svars == <<client, lb, gf, http>>

\* what one list_files call leaves alone
xvars == <<bucket_exists, cancel_at, cur, parked, ovars, svars>>

vars == <<store, prefix, pc, files, prefixes, deepAll, deepRest, scanned,
          prefix_latest_updated, calls, logged, caught, result, xvars>>

-----------------------------------------------------------------------------
(* Bounds *)

MaxObjs == 3        \* objects in the bucket
MaxTime == 2        \* distinct datetimes an object's updated may take

None == 0

-----------------------------------------------------------------------------
(* Strings *)

Slash == "/"

\* s[n:] of Python: the empty string when n >= len(s)
DropChars(s, n) == IF n >= Len(s) THEN <<>> ELSE SubSeq(s, n + 1, Len(s))

\* s[:-1] of Python
DropLast(s) == IF Len(s) = 0 THEN <<>> ELSE SubSeq(s, 1, Len(s) - 1)

HasSlash(s) == \E i \in 1..Len(s) : s[i] = Slash

FirstSlash(s) == CHOOSE i \in 1..Len(s) : s[i] = Slash /\ \A j \in 1..(i - 1) : s[j] # Slash

\* s.split('/', 1): one part when s holds no '/', else the text before the
\* first '/' and the text after it
Split1(s) ==
    IF HasSlash(s)
    THEN <<SubSeq(s, 1, FirstSlash(s) - 1), DropChars(s, FirstSlash(s))>>
    ELSE <<s>>

StartsWith(s, p) == Len(p) <= Len(s) /\ SubSeq(s, 1, Len(p)) = p

DayStr == <<"01", "02", "03", "04", "05", "06", "07", "08", "09">>

\* datetime.isoformat() of midnight on day t of January 2023
isoformat(t) == "2023-01-" \o DayStr[t] \o "T00:00:00"

-----------------------------------------------------------------------------
(* The bucket *)

Names == { <<"f">>,
           <<"a", "/">>,
           <<"a", "/", "x">>,
           <<"b", "/", "x">>,
           <<"a", "/", "b", "/", "x">>,
           <<"a", "/", "b", "/", "y">> }

Prefixes == { <<>>, <<"a", "/">>, <<"a">> }

BucketName == "test-bucket"

Times == 1..MaxTime

Stores == { s \in SUBSET [name : Names, updated : {None} \cup Times] :
              /\ Cardinality(s) <= MaxObjs
              /\ \A b1, b2 \in s : b1.name = b2.name => b1 = b2 }

\* the attributes of a listed blob that list_files reads besides name and updated
time_created(b) == IF Len(b.name) = 1 THEN None ELSE 1
size(b) == IF b.name[Len(b.name)] = Slash THEN 0 ELSE 100 * Len(b.name)
content_type(b) == IF b.name[Len(b.name)] = Slash THEN "" ELSE "text/plain"

\* the orders in which a set may be iterated
Orders(S) == { q \in [1..Cardinality(S) -> S] :
                 \A i, j \in 1..Cardinality(S) : q[i] = q[j] => i = j }

Under(st, p) == { b \in st : StartsWith(b.name, p) }

\* list_blobs(bucket, prefix=p, delimiter="/"): the objects under p whose
\* name holds no delimiter after p ...
DirectItems(st, p) == { b \in Under(st, p) : ~HasSlash(DropChars(b.name, Len(p))) }

\* ... and, for the others, the name up to and including that delimiter
CommonPrefixes(st, p) ==
    { p \o Split1(DropChars(b.name, Len(p)))[1] \o <<Slash>> :
        b \in Under(st, p) \ DirectItems(st, p) }

-----------------------------------------------------------------------------
(* list_files *)

Call(delim) == [bucket |-> BucketName, prefix |-> prefix, delimiter |-> delim]

Pending == [kind |-> "pending", prefixes |-> <<>>, files |-> <<>>]

\* return []
EmptyList == [kind |-> "list", prefixes |-> <<>>, files |-> <<>>]

InList(x, q) == \E i \in 1..Len(q) : q[i] = x

\* dict.get(k): None for a missing key
Get(d, k) == IF k \in DOMAIN d THEN d[k] ELSE None

Put(d, k, v) == [x \in DOMAIN d \cup {k} |-> IF x = k THEN v ELSE d[x]]

\* a handler that logs nothing
ExceptSilent(kind) ==
    /\ logged' = logged
    /\ caught' = kind
    /\ result' = [kind |-> "list", prefixes |-> <<>>, files |-> <<>>]
    /\ pc' = "done"

\* a handler that logs and goes on to build the result from what it has
ExceptContinue(kind) ==
    /\ logged' = logged + 1
    /\ caught' = kind
    /\ result' = result
    /\ pc' = "build"

\* except Exception as e: log it, return []
Except(kind) ==
    /\ logged' = logged + 1
    /\ caught' = kind
    /\ result' = EmptyList
    /\ pc' = "done"

\* the locals of a list_files call that has not started: result = {},
\* file_list = [], subdir_list = [], prefix_latest_updated = {}
Entry ==
    /\ pc = "start"
    /\ files = <<>>
    /\ prefixes = <<>>
    /\ deepAll = {}
    /\ deepRest = {}
    /\ scanned = <<>>
    /\ prefix_latest_updated = <<>>
    /\ caught = "none"
    /\ result = Pending

NoOp == [name |-> "none", path |-> <<>>, arg |-> <<>>]

NoResult == [kind |-> "pending", error |-> "", about |-> <<>>, status |-> None,
             success |-> FALSE, name |-> <<>>, bucket |-> "", size |-> ""]

\* no write operation is called
OpsIdle ==
    /\ o_op = NoOp
    /\ o_pc = "idle"
    /\ o_trace = <<>>
    /\ o_logged = 0
    /\ o_result = NoResult
    /\ o_raised = ""

\* nothing is constructed, read or requested
NoCall == [pc |-> "none"]

OthersIdle ==
    /\ client = NoCall
    /\ lb = NoCall
    /\ gf = NoCall
    /\ http = NoCall

\* a single list_files request
Alone ==
    /\ cur = 1
    /\ parked = [pc |-> "none"]
    /\ cancel_at = "none"

\* a bucket the store does not know holds nothing
Init ==
    /\ store \in Stores
    /\ bucket_exists \in {TRUE} \cup (IF store = {} THEN {FALSE} ELSE {})
    /\ prefix \in Prefixes
    /\ Entry
    /\ calls = <<>>
    /\ logged = 0
    /\ Alone
    /\ OpsIdle
    /\ OthersIdle

\* a deep listing asked for whatever the shallow listing returned
AfterShallowAlways(ps) == "deep"

\* a deep listing never asked for
AfterShallowNever(ps) == "build"

\* if blobs.prefixes: the deep listing is made only for a non-empty
\* blobs.prefixes
AfterShallow(ps) == IF ps # <<>> THEN "deep" ELSE "build"

\* client.list_blobs(bucket, prefix=prefix, delimiter="/"); files = list(blobs)
ShallowList ==
    /\ pc = "start"
    /\ bucket_exists
    /\ calls' = Append(calls, Call(Slash))
    /\ \E fs \in Orders(DirectItems(store, prefix)) :
       \E ps \in Orders(CommonPrefixes(store, prefix)) :
          /\ files' = fs
          /\ prefixes' = ps
          /\ pc' = AfterShallow(ps)
    /\ UNCHANGED <<store, prefix, deepAll, deepRest, scanned,
                   prefix_latest_updated, logged, caught, result>>
    /\ UNCHANGED xvars

\* the store raises while the shallow listing is made or consumed
ShallowFail ==
    /\ pc = "start"
    /\ calls' = Append(calls, Call(Slash))
    /\ Except("shallow")
    /\ UNCHANGED <<store, prefix, files, prefixes, deepAll, deepRest, scanned,
                   prefix_latest_updated>>
    /\ UNCHANGED xvars

\* all_blobs_under_prefix = client.list_blobs(bucket, prefix=prefix)
DeepList ==
    /\ pc = "deep"
    /\ bucket_exists
    /\ calls' = Append(calls, Call("None"))
    /\ deepAll' = Under(store, prefix)
    /\ deepRest' = deepAll'
    /\ pc' = IF deepAll' = {} THEN "build" ELSE "scan"
    /\ UNCHANGED <<store, prefix, files, prefixes, scanned,
                   prefix_latest_updated, logged, caught, result>>
    /\ UNCHANGED xvars

\* the store raises when the deep listing is asked for
DeepFail ==
    /\ pc = "deep"
    /\ calls' = Append(calls, Call("None"))
    /\ Except("deep")
    /\ UNCHANGED <<store, prefix, files, prefixes, deepAll, deepRest, scanned,
                   prefix_latest_updated>>
    /\ UNCHANGED xvars

\* relative_name = blob.name[len(prefix or ''):]
relative_name(blob) == DropChars(blob.name, Len(prefix))

\* parts = relative_name.split('/', 1)
parts(blob) == Split1(relative_name(blob))

\* subdirectory = prefix + parts[0] + '/'
subdirectory(blob) == prefix \o parts(blob)[1] \o <<Slash>>

\* len(parts) > 1 and subdirectory in blobs.prefixes
Grouped(blob) == Len(parts(blob)) > 1 /\ InList(subdirectory(blob), prefixes)

\* prefix_latest_updated[subdirectory] < blob.updated is evaluated, and one
\* side of it is None: Python raises TypeError
CompareRaises(d, blob) ==
    /\ Grouped(blob)
    /\ subdirectory(blob) \in DOMAIN d
    /\ blob.updated # None
    /\ d[subdirectory(blob)] = None

\* subdirectory not in prefix_latest_updated
\*   or (blob.updated and prefix_latest_updated[subdirectory] < blob.updated)
Replaces(d, blob) ==
    \/ subdirectory(blob) \notin DOMAIN d
    \/ (blob.updated # None /\ d[subdirectory(blob)] < blob.updated)

\* the body of the for loop over the deep listing, when it raises nothing
Aggregate(d, blob) ==
    IF Grouped(blob) /\ Replaces(d, blob)
    THEN Put(d, subdirectory(blob), blob.updated)
    ELSE d

\* one iteration of: for blob in all_blobs_under_prefix
ScanBlob ==
    /\ pc = "scan"
    /\ \E blob \in deepRest :
          /\ deepRest' = deepRest \ {blob}
          /\ scanned' = Append(scanned, blob)
          /\ IF CompareRaises(prefix_latest_updated, blob)
             THEN /\ Except("type")
                  /\ UNCHANGED prefix_latest_updated
             ELSE /\ prefix_latest_updated' = Aggregate(prefix_latest_updated, blob)
                  /\ pc' = IF deepRest' = {} THEN "build" ELSE "scan"
                  /\ UNCHANGED <<logged, caught, result>>
    /\ UNCHANGED <<store, prefix, files, prefixes, deepAll, calls>>
    /\ UNCHANGED xvars

\* the store raises while the deep listing is iterated (a later page fails)
ScanFail ==
    /\ pc = "scan"
    /\ deepRest # {}
    /\ Except("deep")
    /\ UNCHANGED <<store, prefix, files, prefixes, deepAll, deepRest, scanned,
                   prefix_latest_updated, calls>>
    /\ UNCHANGED xvars

\* an entry named subdir_name = pref[:-1] instead of pref
PrefixEntrySubdirName(d, pref) ==
    [prefixes |-> [name |-> DropLast(pref),
                   updatedAt |-> IF Get(d, pref) # None
                                 THEN isoformat(Get(d, pref)) ELSE ""]]

\* subdir_list.append({"prefixes": {"name": pref, "updatedAt": ...}})
PrefixEntry(d, pref) ==
    [prefixes |-> [name |-> pref,
                   updatedAt |-> IF Get(d, pref) # None
                                 THEN isoformat(Get(d, pref)) ELSE ""]]

\* file_list.append({"items": {...}})
FileEntry(file) ==
    [items |-> [name |-> file.name,
                timeCreated |-> IF time_created(file) # None
                                THEN isoformat(time_created(file)) ELSE "",
                updated |-> IF file.updated # None
                            THEN isoformat(file.updated) ELSE "",
                size |-> size(file),
                content_type |-> content_type(file)]]

subdir_list(d, ps) == [i \in 1..Len(ps) |-> PrefixEntry(d, ps[i])]

file_list(fs) == [i \in 1..Len(fs) |-> FileEntry(fs[i])]

\* a result that lists the folders among the files as well
ListingResultFoldersAsFiles(d, ps, fs) ==
    [kind |-> "dict",
     prefixes |-> subdir_list(d, ps),
     files |-> file_list(fs) \o
               [i \in 1..Len(ps) |->
                  [items |-> [name |-> ps[i], timeCreated |-> "", updated |-> "",
                              size |-> 0, content_type |-> ""]]]]

\* a result appended to lists that outlive the call: the entries of the
\* other request come first
ListingResultAfterOther(d, ps, fs) ==
    [kind |-> "dict",
     prefixes |-> parked.result.prefixes \o subdir_list(d, ps),
     files |-> parked.result.files \o file_list(fs)]

\* a result that is [] when there is nothing to list
ListingResultOrEmpty(d, ps, fs) ==
    IF ps = <<>> /\ fs = <<>>
    THEN [kind |-> "list", prefixes |-> <<>>, files |-> <<>>]
    ELSE [kind |-> "dict", prefixes |-> subdir_list(d, ps), files |-> file_list(fs)]

\* result["prefixes"] = subdir_list; result["files"] = file_list
ListingResult(d, ps, fs) ==
    [kind |-> "dict", prefixes |-> subdir_list(d, ps), files |-> file_list(fs)]

\* the code after the scan, up to: return result
BuildResult ==
    /\ pc = "build"
    /\ result' = ListingResult(prefix_latest_updated, prefixes, files)
    /\ pc' = "done"
    /\ UNCHANGED <<store, prefix, files, prefixes, deepAll, deepRest, scanned,
                   prefix_latest_updated, calls, logged, caught>>
    /\ UNCHANGED xvars

Next ==
    \/ ShallowList
    \/ ShallowFail
    \/ DeepList
    \/ DeepFail
    \/ ScanBlob
    \/ ScanFail
    \/ BuildResult

Spec == Init /\ [][Next]_vars

-----------------------------------------------------------------------------
(* What the properties below speak of *)

Done == pc = "done"

StoreFailed == caught \in {"shallow", "deep"}

\* the exception leaves list_files and reaches its caller
Raised == [kind |-> "raise", prefixes |-> <<>>, files |-> <<>>]

\* listing an empty directory
EmptyDirectory == [kind |-> "dict", prefixes |-> <<>>, files |-> <<>>]

\* the deep-listing objects of folder p: p is the requested prefix, one
\* segment and '/', so these are the objects whose name goes on from p
Members(p) == { b \in deepAll : StartsWith(b.name, p) }

Latest(S) ==
    IF \A b \in S : b.updated = None
    THEN None
    ELSE CHOOSE t \in Times :
            /\ \E b \in S : b.updated = t
            /\ \A b \in S : b.updated <= t

ExpectedUpdatedAt(p) ==
    IF Latest(Members(p)) = None THEN "" ELSE isoformat(Latest(Members(p)))

\* the last blob the scan took, in a step that took one
Taken == scanned'[Len(scanned')]

\* name is the requested prefix, one segment without '/', and a '/'
OneLevelBelow(name) ==
    /\ StartsWith(name, prefix)
    /\ Len(name) > Len(prefix)
    /\ name[Len(name)] = Slash
    /\ ~HasSlash(DropLast(DropChars(name, Len(prefix))))

-----------------------------------------------------------------------------
(* Two requests at once *)

\* The bucket the two requests list: one file at the top and a folder whose
\* two objects lie at different depths.
PairNames == { <<"f">>, <<"a", "/", "x">>, <<"a", "/", "b", "/", "y">> }

PairPrefixes == { <<>>, <<"a", "/">> }

PairStores == { s \in SUBSET [name : PairNames, updated : {None} \cup Times] :
                  \A b1, b2 \in s : b1.name = b2.name => b1 = b2 }

\* the locals of the request that is running
Locals ==
    [prefix |-> prefix, pc |-> pc, files |-> files, prefixes |-> prefixes,
     deepAll |-> deepAll, deepRest |-> deepRest, scanned |-> scanned,
     prefix_latest_updated |-> prefix_latest_updated,
     caught |-> caught, result |-> result]

\* the locals of a request for prefix q that has not started
EntryLocals(q) ==
    [prefix |-> q, pc |-> "start", files |-> <<>>, prefixes |-> <<>>,
     deepAll |-> {}, deepRest |-> {}, scanned |-> <<>>,
     prefix_latest_updated |-> <<>>,
     caught |-> "none", result |-> Pending]

InitPair ==
    /\ store \in PairStores
    /\ bucket_exists = TRUE
    /\ prefix \in PairPrefixes
    /\ Entry
    /\ calls = <<>>
    /\ logged = 0
    /\ cur = 1
    /\ \E q \in PairPrefixes : parked = EntryLocals(q)
    /\ cancel_at = "none"
    /\ OpsIdle
    /\ OthersIdle

\* one dictionary for every call: the running request's goes on
SharedDict(saved, running) == running

\* prefix_latest_updated = {} is a local of the call: the request that
\* resumes finds the dictionary it left
OwnDict(saved, running) == saved

\* the other request runs on from where it stopped
Switch ==
    /\ parked.pc # "none"
    /\ ~(pc = "done" /\ parked.pc = "done")
    /\ cur' = 3 - cur
    /\ parked' = Locals
    /\ prefix' = parked.prefix
    /\ pc' = parked.pc
    /\ files' = parked.files
    /\ prefixes' = parked.prefixes
    /\ deepAll' = parked.deepAll
    /\ deepRest' = parked.deepRest
    /\ scanned' = parked.scanned
    /\ prefix_latest_updated' = OwnDict(parked.prefix_latest_updated, prefix_latest_updated)
    /\ caught' = parked.caught
    /\ result' = parked.result
    /\ UNCHANGED <<store, calls, logged, bucket_exists, cancel_at, ovars, svars>>

\* the store answers every call of either request
NextPair ==
    \/ ShallowList
    \/ DeepList
    \/ ScanBlob
    \/ BuildResult
    \/ Switch

SpecPair == InitPair /\ [][NextPair]_vars

-----------------------------------------------------------------------------
(* Cancellation by the calling layer *)

\* list_files is a coroutine function whose body holds no await: both store
\* calls are blocking calls of the synchronous client, so once the body runs
\* it runs to its return.  A cancellation can be thrown into the coroutine
\* only while it has not yet been stepped.
CanDeliverCancel(p) == p = "start"

\* the calling layer cancels the request; cancel_at keeps where list_files
\* was when it did (a cancellation that arrives while a store call blocks is
\* seen at the statement after the call).  The cancellation is thrown into
\* the coroutine where it can be.
RequestCancel ==
    /\ cancel_at = "none"
    /\ pc \in {"start", "deep", "scan", "build"}
    /\ cancel_at' = pc
    /\ pc' = IF CanDeliverCancel(pc) THEN "cancelled" ELSE pc
    /\ UNCHANGED <<store, prefix, files, prefixes, deepAll, deepRest, scanned,
                   prefix_latest_updated, calls, logged, caught, result,
                   bucket_exists, cur, parked, ovars, svars>>

NextCancel == Next \/ RequestCancel

SpecCancel == Init /\ [][NextCancel]_vars

-----------------------------------------------------------------------------
(* create_folder, delete_file, rename_file, save_content *)

\* the variables of list_files and of the other operations, which no write
\* operation touches
lvars == <<prefix, pc, files, prefixes, deepAll, deepRest, scanned,
           prefix_latest_updated, calls, logged, caught, result,
           bucket_exists, cancel_at, cur, parked, svars>>

\* The bucket the write operations work on, and their arguments.
OpNames == { <<"f">>, <<"a", "/">>, <<"a", "/", "x">> }

OpStores == { s \in SUBSET [name : OpNames, updated : {None} \cup Times] :
                \A b1, b2 \in s : b1.name = b2.name => b1 = b2 }

DeletePaths == { <<>>, <<"a", "/">>, <<"f">>, <<"a", "/", "x">> }
FilePaths == { <<"f">>, <<"a", "/", "x">> }
NewNames == { <<"g">> }
FolderPaths == { <<>>, <<"a">>, <<"a", "/">> }
FolderNames == { <<"b">> }

OpCalls ==
    { [name |-> "delete_file", path |-> p, arg |-> <<>>] : p \in DeletePaths }
    \cup { [name |-> "rename_file", path |-> p, arg |-> n] :
             p \in FilePaths, n \in NewNames }
    \cup { [name |-> "create_folder", path |-> p, arg |-> n] :
             p \in FolderPaths, n \in FolderNames }
    \cup { [name |-> "save_content", path |-> p, arg |-> <<>>] : p \in FilePaths }

\* str(e) of what the store raises
ExcMessages == { "Forbidden", "ServiceUnavailable" }

InitOps ==
    /\ store \in OpStores
    /\ bucket_exists = TRUE
    /\ prefix = <<>>
    /\ Entry
    /\ calls = <<>>
    /\ logged = 0
    /\ Alone
    /\ OpsIdle
    /\ OthersIdle

\* one of the four operations is called
CallOp ==
    /\ o_pc = "idle"
    /\ o_op' \in OpCalls
    /\ o_pc' = "start"
    /\ UNCHANGED <<store, lvars, o_trace, o_logged, o_result, o_raised>>

\* a store in which every object is always there
ExistsAlways(st, n) == TRUE

\* blob.exists()
Exists(st, n) == \E b \in st : b.name = n

Answer(e) == IF e THEN "exists:True" ELSE "exists:False"

Called(m) == \E i \in 1..Len(o_trace) : o_trace[i] = m

\* the dict an operation returns besides its error results
Returned == [NoResult EXCEPT !.kind = "dict"]

\* {"error": "Deleting Folder/Bucket is not allowed", "status": 404}
FolderNotAllowed ==
    [Returned EXCEPT !.error = "Deleting Folder/Bucket is not allowed", !.status = 404]

\* {"error": "File not found", "status": 404}
FileNotFound == [Returned EXCEPT !.error = "File not found", !.status = 404]

\* {"error": f"Source file {blob_name} not found", "status": 404}; about is
\* the name the message holds
SourceNotFound(blob_name) ==
    [Returned EXCEPT !.error = "Source file {blob_name} not found",
                     !.about = blob_name, !.status = 404]

\* {"success": True}
Deleted == [Returned EXCEPT !.success = TRUE]

\* {"name": new_blob.name, "bucket": bucket_name, "success": True}
Renamed(new_blob) ==
    [Returned EXCEPT !.name = new_blob.name, !.bucket = BucketName, !.success = TRUE]

\* the dict save_content returns, as to name, bucket and success
Saved(n) == [Returned EXCEPT !.name = n, !.bucket = BucketName, !.success = TRUE]

\* the dict create_folder returns, as to name, bucket and size
Created(n) == [Returned EXCEPT !.name = n, !.bucket = BucketName, !.size = "0"]

\* an error dict that never tells a status
ErrorResultBare(op, m) == [Returned EXCEPT !.error = m]

\* {"error": str(e)} in create_folder, {"error": str(e), "status": 500} in
\* the other three
ErrorResult(op, m) ==
    IF op = "create_folder"
    THEN [Returned EXCEPT !.error = m]
    ELSE [Returned EXCEPT !.error = m, !.status = 500]

\* except Exception as e: self.log.exception(...); return the error dict
OpExcept(m) ==
    /\ o_raised' = m
    /\ o_logged' = o_logged + 1
    /\ o_result' = ErrorResult(o_op.name, m)
    /\ o_pc' = "done"

\* only the bucket itself is refused
IsBucketOnly(path) == path = <<>>

\* path.endswith("/") or path == ""
IsFolderOrBucket(path) == path = <<>> \/ path[Len(path)] = Slash

\* the source is taken to exist whatever exists() answered
SourceMissingNever(e) == FALSE

\* if not blob.exists()
SourceMissing(e) == ~e

\* delete_file up to the answer of blob.exists()
DeleteExists ==
    /\ o_op.name = "delete_file"
    /\ o_pc = "start"
    /\ IF IsFolderOrBucket(o_op.path)
       THEN /\ o_trace' = <<"bucket">>
            /\ o_result' = FolderNotAllowed
            /\ o_pc' = "done"
       ELSE /\ o_trace' = <<"bucket", "blob", Answer(Exists(store, o_op.path))>>
            /\ IF SourceMissing(Exists(store, o_op.path))
               THEN o_result' = FileNotFound /\ o_pc' = "done"
               ELSE o_result' = o_result /\ o_pc' = "delete"
    /\ UNCHANGED <<store, lvars, o_op, o_logged, o_raised>>

\* blob.exists() raises
DeleteExistsFail ==
    /\ o_op.name = "delete_file"
    /\ o_pc = "start"
    /\ ~IsFolderOrBucket(o_op.path)
    /\ o_trace' = <<"bucket", "blob", "exists">>
    /\ \E m \in ExcMessages : OpExcept(m)
    /\ UNCHANGED <<store, lvars, o_op>>

\* blob.delete(); an object that is not there makes the store raise
DeleteBlob ==
    /\ o_op.name = "delete_file"
    /\ o_pc = "delete"
    /\ o_trace' = Append(o_trace, "delete")
    /\ IF Exists(store, o_op.path)
       THEN /\ store' = { b \in store : b.name # o_op.path }
            /\ o_result' = Deleted
            /\ o_pc' = "done"
            /\ UNCHANGED <<o_logged, o_raised>>
       ELSE /\ OpExcept("NotFound")
            /\ UNCHANGED store
    /\ UNCHANGED <<lvars, o_op>>

\* blob.delete() raises
DeleteBlobFail ==
    /\ o_op.name = "delete_file"
    /\ o_pc = "delete"
    /\ o_trace' = Append(o_trace, "delete")
    /\ \E m \in ExcMessages : OpExcept(m)
    /\ UNCHANGED <<store, lvars, o_op>>

\* rename_file up to the answer of blob.exists()
RenameExists ==
    /\ o_op.name = "rename_file"
    /\ o_pc = "start"
    /\ o_trace' = <<"bucket", "blob", Answer(Exists(store, o_op.path))>>
    /\ IF SourceMissing(Exists(store, o_op.path))
       THEN o_result' = SourceNotFound(o_op.path) /\ o_pc' = "done"
       ELSE o_result' = o_result /\ o_pc' = "rename"
    /\ UNCHANGED <<store, lvars, o_op, o_logged, o_raised>>

\* blob.exists() raises
RenameExistsFail ==
    /\ o_op.name = "rename_file"
    /\ o_pc = "start"
    /\ o_trace' = <<"bucket", "blob", "exists">>
    /\ \E m \in ExcMessages : OpExcept(m)
    /\ UNCHANGED <<store, lvars, o_op>>

\* the times the store may stamp on an object written now: none earlier
\* than a time it has stamped already
Now(st) == { t \in Times : \A b \in st : b.updated <= t }

\* the store with an object written under name n at time t
Written(st, n, t) == { b \in st : b.name # n } \cup { [name |-> n, updated |-> t] }

\* new_blob = bucket.rename_blob(blob, new_name): the object goes from its
\* name to new_name; a source that is not there makes the store raise
RenameBlob ==
    /\ o_op.name = "rename_file"
    /\ o_pc = "rename"
    /\ o_trace' = Append(o_trace, "rename_blob")
    /\ IF Exists(store, o_op.path)
       THEN /\ \E t \in Now(store) :
                 /\ store' = Written({ b \in store : b.name # o_op.path }, o_op.arg, t)
                 /\ o_result' = Renamed([name |-> o_op.arg, updated |-> t])
            /\ o_pc' = "done"
            /\ UNCHANGED <<o_logged, o_raised>>
       ELSE /\ OpExcept("NotFound")
            /\ UNCHANGED store
    /\ UNCHANGED <<lvars, o_op>>

\* bucket.rename_blob raises
RenameBlobFail ==
    /\ o_op.name = "rename_file"
    /\ o_pc = "rename"
    /\ o_trace' = Append(o_trace, "rename_blob")
    /\ \E m \in ExcMessages : OpExcept(m)
    /\ UNCHANGED <<store, lvars, o_op>>

\* a path joined to the folder name by one '/' whether or not it ends in one
new_folder_path_joined(path, folder_name) ==
    IF path = <<>>
    THEN folder_name \o <<Slash>>
    ELSE IF path[Len(path)] = Slash
    THEN path \o folder_name \o <<Slash>>
    ELSE path \o <<Slash>> \o folder_name \o <<Slash>>

\* new_folder_path = folder_name + "/" if path == ""
\*                   else path + "/" + folder_name + "/"
new_folder_path(path, folder_name) ==
    IF path = <<>>
    THEN folder_name \o <<Slash>>
    ELSE path \o <<Slash>> \o folder_name \o <<Slash>>

\* create_folder: blob.upload_from_string("") under new_folder_path
CreateFolder ==
    /\ o_op.name = "create_folder"
    /\ o_pc = "start"
    /\ o_trace' = <<"bucket", "blob", "upload_from_string">>
    /\ \E t \in Now(store) :
          store' = Written(store, new_folder_path(o_op.path, o_op.arg), t)
    /\ o_result' = Created(new_folder_path(o_op.path, o_op.arg))
    /\ o_pc' = "done"
    /\ UNCHANGED <<lvars, o_op, o_logged, o_raised>>

\* save_content: blob.upload_from_string(content, content_type="media")
SaveContent ==
    /\ o_op.name = "save_content"
    /\ o_pc = "start"
    /\ o_trace' = <<"bucket", "blob", "upload_from_string">>
    /\ \E t \in Now(store) : store' = Written(store, o_op.path, t)
    /\ o_result' = Saved(o_op.path)
    /\ o_pc' = "done"
    /\ UNCHANGED <<lvars, o_op, o_logged, o_raised>>

\* blob.upload_from_string raises, in create_folder or in save_content
UploadFail ==
    /\ o_op.name \in {"create_folder", "save_content"}
    /\ o_pc = "start"
    /\ o_trace' = <<"bucket", "blob", "upload_from_string">>
    /\ \E m \in ExcMessages : OpExcept(m)
    /\ UNCHANGED <<store, lvars, o_op>>

NextOps ==
    \/ CallOp
    \/ DeleteExists
    \/ DeleteExistsFail
    \/ DeleteBlob
    \/ DeleteBlobFail
    \/ RenameExists
    \/ RenameExistsFail
    \/ RenameBlob
    \/ RenameBlobFail
    \/ CreateFolder
    \/ SaveContent
    \/ UploadFail

SpecOps == InitOps /\ [][NextOps]_vars

-----------------------------------------------------------------------------
(* Client.__init__ *)

\* everything outside the construction, the read operations and the controllers
base == <<store, prefix, pc, files, prefixes, deepAll, deepRest, scanned,
          prefix_latest_updated, calls, logged, caught, result,
          bucket_exists, cancel_at, cur, parked, ovars>>

\* no list_files call and no write operation is under way
Quiet ==
    /\ store = {}
    /\ bucket_exists = TRUE
    /\ prefix = <<>>
    /\ Entry
    /\ calls = <<>>
    /\ logged = 0
    /\ Alone
    /\ OpsIdle

\* the keys __init__ asks for, and one it does not
RequiredKeys == { "access_token", "project_id", "region_id" }
CredentialKeys == RequiredKeys \cup { "config_error" }

\* the values a key may hold; a key may also be absent from the dict
CredentialValues == { "", "fake" }

CredentialDicts ==
    UNION { [ks -> CredentialValues] : ks \in SUBSET CredentialKeys }

InitClient ==
    /\ Quiet
    /\ \E c \in CredentialDicts :
          client = [pc |-> "new", credentials |-> c, logged |-> 0,
                    raised |-> "", fields |-> <<>>]
    /\ lb = NoCall
    /\ gf = NoCall
    /\ http = NoCall

\* the three keys tested for a value that is true, as credentials.get(k)
\* would be, instead of for being there
HasRequiredValues(c) ==
    /\ "access_token" \in DOMAIN c /\ c["access_token"] # ""
    /\ "project_id" \in DOMAIN c /\ c["project_id"] # ""
    /\ "region_id" \in DOMAIN c /\ c["region_id"] # ""

\* ("access_token" in credentials) and ("project_id" in credentials)
\*   and ("region_id" in credentials)
HasRequired(c) ==
    /\ "access_token" \in DOMAIN c
    /\ "project_id" \in DOMAIN c
    /\ "region_id" \in DOMAIN c

\* Client(credentials, log, client_session)
Construct ==
    /\ client.pc = "new"
    /\ IF ~HasRequired(client.credentials)
       THEN client' = [client EXCEPT !.pc = "raised",
                                     !.logged = @ + 1,
                                     !.raised = "ValueError"]
       ELSE client' = [client EXCEPT
                         !.pc = "constructed",
                         !.fields = [_access_token |-> client.credentials["access_token"],
                                     project_id |-> client.credentials["project_id"],
                                     region_id |-> client.credentials["region_id"]]]
    /\ UNCHANGED <<base, lb, gf, http>>

SpecClient == InitClient /\ [][Construct]_vars

-----------------------------------------------------------------------------
(* get_file *)

MaxBytes == 2       \* length of the object's content

\* The bytes an object may hold: the letters M and a, the digit 1, the two
\* brackets, and 0xFF, which no UTF-8 text holds.
ByteValues == { 77, 97, 49, 91, 93, 255 }

Contents == UNION { [1..n -> ByteValues] : n \in 0..MaxBytes }

\* the format argument; "None" is Python's None
Formats == { "base64", "json", "text", "None" }

Base64Alphabet ==
   << "A", "B", "C", "D", "E", "F", "G", "H", "I", "J", "K", "L", "M", "N", "O", "P",
   "Q", "R", "S", "T", "U", "V", "W", "X", "Y", "Z", "a", "b", "c", "d", "e", "f",
   "g", "h", "i", "j", "k", "l", "m", "n", "o", "p", "q", "r", "s", "t", "u", "v",
   "w", "x", "y", "z", "0", "1", "2", "3", "4", "5", "6", "7", "8", "9", "+", "/" >>

\* the base64 digit of a 6-bit value
Digit(v) == Base64Alphabet[v + 1]

RECURSIVE b64encode(_)
\* base64.b64encode(file_content).decode('utf-8')
b64encode(bs) ==
    IF Len(bs) = 0 THEN <<>>
    ELSE IF Len(bs) = 1
    THEN << Digit(bs[1] \div 4), Digit((bs[1] % 4) * 16), "=", "=" >>
    ELSE IF Len(bs) = 2
    THEN << Digit(bs[1] \div 4),
            Digit((bs[1] % 4) * 16 + bs[2] \div 16),
            Digit((bs[2] % 16) * 4), "=" >>
    ELSE << Digit(bs[1] \div 4),
            Digit((bs[1] % 4) * 16 + bs[2] \div 16),
            Digit((bs[2] % 16) * 4 + bs[3] \div 64),
            Digit(bs[3] % 64) >>
         \o b64encode(SubSeq(bs, 4, Len(bs)))

\* the character a byte of ByteValues below 0x80 decodes to
Chr(b) ==
    CASE b = 77 -> "M"
      [] b = 97 -> "a"
      [] b = 49 -> "1"
      [] b = 91 -> "["
      [] b = 93 -> "]"

\* blob.download_as_text(): the bytes decoded as UTF-8, which raises for a
\* byte that is no UTF-8
Decodes(bs) == \A i \in 1..Len(bs) : bs[i] < 128
decode(bs) == [i \in 1..Len(bs) |-> Chr(bs[i])]

\* the values get_file gives back: a str, or what json.loads makes of a text
\* of digits and brackets: an int or a list
Str(t) == [kind |-> "str", text |-> t, n |-> 0, items |-> <<>>]
Int(v) == [kind |-> "int", text |-> <<>>, n |-> v, items |-> <<>>]
List(xs) == [kind |-> "list", text |-> <<>>, n |-> 0, items |-> xs]

IsDigits(t) == t # <<>> /\ \A i \in 1..Len(t) : t[i] = "1"

RECURSIVE IntOf(_)
IntOf(t) == IF t = <<>> THEN 0 ELSE 10 * IntOf(SubSeq(t, 1, Len(t) - 1)) + 1

RECURSIVE IsJson(_)
\* json.loads(t) raises nothing
IsJson(t) ==
    \/ IsDigits(t)
    \/ /\ Len(t) >= 2
       /\ t[1] = "["
       /\ t[Len(t)] = "]"
       /\ (Len(t) = 2 \/ IsJson(SubSeq(t, 2, Len(t) - 1)))

RECURSIVE loads(_)
\* json.loads(t) for a t it parses
loads(t) ==
    IF IsDigits(t) THEN Int(IntOf(t))
    ELSE IF Len(t) = 2 THEN List(<<>>)
    ELSE List(<<loads(SubSeq(t, 2, Len(t) - 1))>>)

InitGet ==
    /\ Quiet
    /\ client = NoCall
    /\ lb = NoCall
    /\ \E bs \in Contents, f \in Formats :
          gf = [pc |-> "start", content |-> bs, format |-> f, method |-> "none",
                result |-> Str(<<>>), logged |-> 0, raised |-> ""]
    /\ http = NoCall

\* every format is served as text
BranchText(f) == "text"

\* if format == 'base64': ... elif format == 'json': ... else: ...
Branch(f) ==
    IF f = "base64" THEN "base64"
    ELSE IF f = "json" THEN "json"
    ELSE "text"

\* except Exception as e: self.log.exception(...); return []
GetExcept(g, what) ==
    [g EXCEPT !.pc = "done", !.result = List(<<>>), !.logged = @ + 1, !.raised = what]

\* what get_file does with the bytes the store sends
Download(g) ==
    IF Branch(g.format) = "base64"
    THEN [g EXCEPT !.pc = "done", !.method = "download_as_bytes",
                   !.result = Str(b64encode(g.content))]
    ELSE IF ~Decodes(g.content)
    THEN GetExcept([g EXCEPT !.method = "download_as_text"], "UnicodeDecodeError")
    ELSE IF Branch(g.format) = "json"
    THEN IF IsJson(decode(g.content))
         THEN [g EXCEPT !.pc = "done", !.method = "download_as_text",
                        !.result = loads(decode(g.content))]
         ELSE GetExcept([g EXCEPT !.method = "download_as_text"], "JSONDecodeError")
    ELSE [g EXCEPT !.pc = "done", !.method = "download_as_text",
                   !.result = Str(decode(g.content))]

\* get_file, the store answering the download
GetFile ==
    /\ gf.pc = "start"
    /\ gf' = Download(gf)
    /\ UNCHANGED <<base, client, lb, http>>

\* get_file, the store raising at the download
GetFileFail ==
    /\ gf.pc = "start"
    /\ \E m \in ExcMessages :
          gf' = GetExcept([gf EXCEPT !.method =
                              IF Branch(gf.format) = "base64"
                              THEN "download_as_bytes" ELSE "download_as_text"], m)
    /\ UNCHANGED <<base, client, lb, http>>

NextGet == GetFile \/ GetFileFail

SpecGet == InitGet /\ [][NextGet]_vars

-----------------------------------------------------------------------------
(* list_buckets *)

\* The project's buckets and the prefix arguments; <<>> is the prefix that
\* filters nothing (None).
BucketNames == { <<"b", "1">>, <<"b", "2">>, <<"t">> }
BucketPrefixes == { <<>>, <<"b">>, <<"t">> }

BucketSets == { s \in SUBSET [name : BucketNames, updated : {None} \cup Times] :
                  \A b1, b2 \in s : b1.name = b2.name => b1 = b2 }

InitBuckets ==
    /\ Quiet
    /\ client = NoCall
    /\ \E bs \in BucketSets, p \in BucketPrefixes :
          lb = [pc |-> "start", buckets |-> bs, prefix |-> p, calls |-> <<>>,
                listing |-> <<>>, result |-> [kind |-> "pending", items |-> <<>>, error |-> ""],
                logged |-> 0, raised |-> ""]
    /\ gf = NoCall
    /\ http = NoCall

\* client.list_buckets(prefix=prefix): the buckets whose name starts with prefix
Matching(bs, p) == { b \in bs : StartsWith(b.name, p) }

\* an entry that never tells a time
BucketEntryUndated(bucket) == [items |-> [name |-> bucket.name, updated |-> ""]]

\* {"items": {"name": bucket.name,
\*            "updated": bucket.updated.isoformat() if bucket.updated else ""}}
BucketEntry(bucket) ==
    [items |-> [name |-> bucket.name,
                updated |-> IF bucket.updated # None
                            THEN isoformat(bucket.updated) ELSE ""]]

\* list_buckets, the store answering: the listing asked for without prefix
\* is never iterated, the one asked for with the prefix is
ListBuckets ==
    /\ lb.pc = "start"
    /\ \E q \in Orders(Matching(lb.buckets, lb.prefix)) :
          lb' = [lb EXCEPT
                   !.pc = "done",
                   !.calls = <<"None", lb.prefix>>,
                   !.listing = q,
                   !.result = [kind |-> "list",
                               items |-> [i \in 1..Len(q) |-> BucketEntry(q[i])],
                               error |-> ""]]
    /\ UNCHANGED <<base, client, gf, http>>

\* list_buckets, the store raising while the listing is iterated:
\* self.log.exception(...); return {"error": str(e)}
ListBucketsFail ==
    /\ lb.pc = "start"
    /\ \E m \in ExcMessages :
          lb' = [lb EXCEPT
                   !.pc = "done",
                   !.calls = <<"None", lb.prefix>>,
                   !.result = [kind |-> "dict", items |-> <<>>, error |-> m],
                   !.logged = @ + 1,
                   !.raised = m]
    /\ UNCHANGED <<base, client, gf, http>>

NextBuckets == ListBuckets \/ ListBucketsFail

SpecBuckets == InitBuckets /\ [][NextBuckets]_vars

-----------------------------------------------------------------------------
(* Two delete_file calls for one object *)

\* the locals of the running call, as the other call keeps them while it
\* does not run
OpLocals ==
    [pc |-> o_pc, op |-> o_op, trace |-> o_trace, logged |-> o_logged,
     result |-> o_result, raised |-> o_raised]

\* the locals of a call of op at its entry
EntryOpLocals(op) ==
    [pc |-> "start", op |-> op, trace |-> <<>>, logged |-> 0,
     result |-> NoResult, raised |-> ""]

\* the buckets over the names of the files
FileStores == { s \in SUBSET [name : FilePaths, updated : {None} \cup Times] :
                    \A b1, b2 \in s : b1.name = b2.name => b1 = b2 }

\* both calls are made for the same object, which the bucket holds
InitDeletes ==
    /\ store \in FileStores
    /\ bucket_exists = TRUE
    /\ prefix = <<>>
    /\ Entry
    /\ calls = <<>>
    /\ logged = 0
    /\ cancel_at = "none"
    /\ cur = 1
    /\ OthersIdle
    /\ \E p \in FilePaths :
          /\ Exists(store, p)
          /\ o_op = [name |-> "delete_file", path |-> p, arg |-> <<>>]
          /\ parked = EntryOpLocals(o_op)
    /\ o_pc = "start"
    /\ o_trace = <<>>
    /\ o_logged = 0
    /\ o_result = NoResult
    /\ o_raised = ""

\* the other call goes on
SwitchOp ==
    /\ parked.pc # "none"
    /\ ~(o_pc = "done" /\ parked.pc = "done")
    /\ parked' = OpLocals
    /\ o_pc' = parked.pc
    /\ o_op' = parked.op
    /\ o_trace' = parked.trace
    /\ o_logged' = parked.logged
    /\ o_result' = parked.result
    /\ o_raised' = parked.raised
    /\ UNCHANGED <<store, prefix, pc, files, prefixes, deepAll, deepRest, scanned,
                   prefix_latest_updated, calls, logged, caught, result,
                   bucket_exists, cancel_at, cur, svars>>

NextDeletes ==
    \/ DeleteExists
    \/ DeleteExistsFail
    \/ DeleteBlob
    \/ DeleteBlobFail
    \/ SwitchOp

SpecDeletes == InitDeletes /\ [][NextDeletes]_vars

-----------------------------------------------------------------------------
(* A write between the two listings of list_files *)

InitRace ==
    /\ store \in OpStores
    /\ bucket_exists = TRUE
    /\ prefix \in { <<>>, <<"a", "/">> }
    /\ Entry
    /\ calls = <<>>
    /\ logged = 0
    /\ Alone
    /\ OpsIdle
    /\ OthersIdle

\* one of the four write operations runs after the shallow listing has
\* returned and before the deep listing is asked for
WriteBetween ==
    /\ pc = "deep"
    /\ NextOps

NextRace ==
    \/ ShallowList
    \/ WriteBetween
    \/ DeepList
    \/ ScanBlob
    \/ BuildResult

SpecRace == InitRace /\ [][NextRace]_vars

-----------------------------------------------------------------------------
(* create_folder, then list_files of the folder it was created in *)

\* the buckets with objects in and below folder a/b/
ThenStores ==
    { s \in SUBSET [name : { <<"a", "/", "x">>, <<"a", "/", "b", "/">>,
                             <<"a", "/", "b", "/", "x">>, <<"a", "/", "b", "/", "y">> },
                    updated : {None} \cup Times] :
        \A b1, b2 \in s : b1.name = b2.name => b1 = b2 }

\* create_folder(bucket, "a", "b") is called; list_files(bucket, "a/") waits
InitThen ==
    /\ store \in ThenStores
    /\ bucket_exists = TRUE
    /\ prefix = <<"a", "/">>
    /\ Entry
    /\ calls = <<>>
    /\ logged = 0
    /\ Alone
    /\ OthersIdle
    /\ o_op = [name |-> "create_folder", path |-> <<"a">>, arg |-> <<"b">>]
    /\ o_pc = "start"
    /\ o_trace = <<>>
    /\ o_logged = 0
    /\ o_result = NoResult
    /\ o_raised = ""

\* list_files runs once create_folder has returned
ListAfter ==
    /\ o_pc = "done"
    /\ Next

NextThen ==
    \/ CreateFolder
    \/ UploadFail
    \/ ListAfter

SpecThen == InitThen /\ [][NextThen]_vars

-----------------------------------------------------------------------------
(* controllers/gcs.py *)

\* the store and the variables of list_files
sl == <<store, prefix, pc, files, prefixes, deepAll, deepRest, scanned,
        prefix_latest_updated, calls, logged, caught, result,
        bucket_exists, cancel_at, cur, parked>>

\* A parameter of a request: given with a value, or not given.  Buckets and
\* messages are strings, paths and names are sequences of characters.
Given(v) == [given |-> TRUE, value |-> v]
NoString == [given |-> FALSE, value |-> ""]
NoPath == [given |-> FALSE, value |-> <<>>]

\* not x, for a parameter read with data.get or get_body_argument(.., None)
FalsyString(x) == ~x.given \/ x.value = ""
FalsyPath(x) == ~x.given \/ x.value = <<>>

BucketParams == { NoString, Given(""), Given(BucketName) }

\* The requests: per controller the parameters it reads; body_ok tells
\* whether json.loads(self.request.body) parses.  A body that does not
\* parse gives no parameter.
Requests ==
    { [ctrl |-> "create_folder", body_ok |-> TRUE, bucket |-> b, path |-> p,
       name |-> n, bucket2 |-> NoString] :
         b \in BucketParams, p \in { NoPath, Given(<<"a">>) },
         n \in { NoPath, Given(<<>>), Given(<<"b">>) } }
    \cup
    { [ctrl |-> "delete_file", body_ok |-> TRUE, bucket |-> b, path |-> p,
       name |-> NoPath, bucket2 |-> NoString] :
         b \in BucketParams,
         p \in { NoPath, Given(<<>>), Given(<<"f">>), Given(<<"a", "/">>),
                 Given(<<"a", "/", "x">>) } }
    \cup
    { [ctrl |-> "rename_file", body_ok |-> TRUE, bucket |-> b, path |-> p,
       name |-> n, bucket2 |-> b2] :
         b \in BucketParams, p \in { NoPath, Given(<<>>), Given(<<"f">>) },
         n \in { NoPath, Given(<<>>), Given(<<"g">>) },
         b2 \in BucketParams \cup { Given("other-bucket") } }
    \cup
    { [ctrl |-> "save_content", body_ok |-> TRUE, bucket |-> b, path |-> p,
       name |-> n, bucket2 |-> NoString] :
         b \in BucketParams, p \in { NoPath, Given(<<>>), Given(<<"f">>) },
         n \in { NoPath, Given(<<>>), Given(<<"x">>) } }
    \cup
    { [ctrl |-> "list_buckets", body_ok |-> TRUE, bucket |-> NoString, path |-> p,
       name |-> NoPath, bucket2 |-> NoString] :
         p \in { NoPath, Given(<<"b">>) } }
    \cup
    { [ctrl |-> c, body_ok |-> FALSE, bucket |-> NoString, path |-> NoPath,
       name |-> NoPath, bucket2 |-> NoString] :
         c \in { "create_folder", "delete_file", "rename_file" } }

\* what self.finish was given: nothing, or a dict with these keys set
NoBody == [kind |-> "none", error |-> "", status |-> None]
ErrorBody(m) == [kind |-> "dict", error |-> m, status |-> None]

InitHttp ==
    /\ store \in FileStores
    /\ bucket_exists = TRUE
    /\ prefix = <<>>
    /\ Entry
    /\ calls = <<>>
    /\ logged = 0
    /\ Alone
    /\ OpsIdle
    /\ client = NoCall
    /\ lb = NoCall
    /\ gf = NoCall
    /\ \E r \in Requests :
          http = [pc |-> "start", request |-> r, status |-> 200, finished |-> 0,
                  body |-> NoBody, lookups |-> 0, logged |-> 0, raised |-> ""]

\* only a missing bucket is turned away
RejectionBucketOnly(r) ==
    IF r.ctrl # "list_buckets" /\ FalsyString(r.bucket)
    THEN "Missing required parameters"
    ELSE ""

\* the message of the 400 answer the controller gives for the parameters of
\* r, "" when it gives none
Rejection(r) ==
    CASE r.ctrl = "create_folder" ->
           IF FalsyString(r.bucket) \/ FalsyPath(r.name)
           THEN "Missing required parameters" ELSE ""
      [] r.ctrl = "delete_file" ->
           IF FalsyString(r.bucket) \/ FalsyPath(r.path)
           THEN "Missing required parameters" ELSE ""
      [] r.ctrl = "rename_file" ->
           IF \/ FalsyString(r.bucket) \/ FalsyPath(r.path)
              \/ FalsyString(r.bucket2) \/ FalsyPath(r.name)
           THEN "Missing required parameters"
           ELSE IF r.bucket.value # r.bucket2.value
           THEN "Cross-bucket renaming is not supported"
           ELSE ""
      [] r.ctrl = "save_content" ->
           IF FalsyString(r.bucket) \/ FalsyPath(r.path)
           THEN "Missing required parameters"
           ELSE IF FalsyPath(r.name) THEN "No content provided"
           ELSE ""
      [] r.ctrl = "list_buckets" -> ""

\* json.loads(self.request.body) raises, or self.get_argument("prefix")
\* does for a prefix not given; "" when neither does
ParseRaises(r) ==
    IF ~r.body_ok THEN "JSONDecodeError"
    ELSE IF r.ctrl = "list_buckets" /\ ~r.path.given THEN "MissingArgumentError"
    ELSE ""

\* two calls of self.finish where there is one
finish_twice(h, b) == [h EXCEPT !.finished = @ + 2, !.body = b]

\* self.finish(...)
finish(h, b) == [h EXCEPT !.finished = @ + 1, !.body = b]

\* self.set_status(...)
set_status(h, code) == [h EXCEPT !.status = code]

\* except Exception as e: log it, set_status(500) (ListBucketsController
\* sets none), finish({"error": str(e)})
HttpExcept(h, m) ==
    finish([(IF h.request.ctrl = "list_buckets" THEN h ELSE set_status(h, 500))
               EXCEPT !.pc = "done", !.logged = @ + 1, !.raised = m],
           ErrorBody(m))

\* the handler up to the end of its parameter checks
HttpParse ==
    /\ http.pc = "start"
    /\ http' =
          IF ParseRaises(http.request) # ""
          THEN HttpExcept(http, ParseRaises(http.request))
          ELSE IF Rejection(http.request) # ""
          THEN finish([set_status(http, 400) EXCEPT !.pc = "done"],
                      ErrorBody(Rejection(http.request)))
          ELSE [http EXCEPT !.pc = "lookup"]
    /\ UNCHANGED <<base, client, lb, gf>>

\* the call of the service the parameters of r ask for
ServiceCall(r) ==
    [name |-> r.ctrl,
     path |-> r.path.value,
     arg |-> IF r.ctrl \in {"create_folder", "rename_file"} THEN r.name.value ELSE <<>>]

\* the buckets ListBucketsController may find
HttpBuckets == { {}, { [name |-> <<"b", "1">>, updated |-> None] } }

\* credentials.get_cached(), gcs.Client(...), and the service is called
HttpLookup ==
    /\ http.pc = "lookup"
    /\ http' = [http EXCEPT !.pc = "service", !.lookups = @ + 1]
    /\ IF http.request.ctrl = "list_buckets"
       THEN /\ \E bs \in HttpBuckets :
                 lb' = [pc |-> "start", buckets |-> bs, prefix |-> http.request.path.value,
                        calls |-> <<>>, listing |-> <<>>,
                        result |-> [kind |-> "pending", items |-> <<>>, error |-> ""],
                        logged |-> 0, raised |-> ""]
            /\ UNCHANGED ovars
       ELSE /\ o_op' = ServiceCall(http.request)
            /\ o_pc' = "start"
            /\ UNCHANGED <<lb, o_trace, o_logged, o_result, o_raised>>
    /\ UNCHANGED <<sl, client, gf>>

\* credentials.get_cached() raises, or gcs.Client(...) does
HttpLookupFail ==
    /\ http.pc = "lookup"
    /\ \E m \in ExcMessages \cup {"Missing required credentials"} :
          http' = HttpExcept([http EXCEPT !.lookups = @ + 1], m)
    /\ UNCHANGED <<base, client, lb, gf>>

\* json.dumps(result) as far as its error and status keys go
ResultBody(res) == [kind |-> "dict", error |-> res.error, status |-> res.status]

\* result.get("status", 500)
StatusOr500(res) == IF res.status # None THEN res.status ELSE 500

\* the handler after the service has returned res
Respond(h, res) ==
    CASE h.request.ctrl = "create_folder" -> finish(h, ResultBody(res))
      [] h.request.ctrl = "delete_file" ->
           IF res.error # ""
           THEN IF res.status = 404
                THEN finish(h, [kind |-> "dict",
                                error |-> "Deleting Folder/Bucket is not allowed",
                                status |-> 404])
                ELSE finish(set_status(h, StatusOr500(res)), ErrorBody(res.error))
           ELSE finish(set_status(h, 204), NoBody)
      [] h.request.ctrl \in {"rename_file", "save_content"} ->
           IF res.error # ""
           THEN finish(set_status(h, StatusOr500(res)), ResultBody(res))
           ELSE finish(set_status(h, 200), ResultBody(res))

\* the service has returned and the handler answers
HttpAnswer ==
    /\ http.pc = "service"
    /\ IF http.request.ctrl = "list_buckets"
       THEN /\ lb.pc = "done"
            /\ http' = [finish(http, [kind |-> lb.result.kind,
                                      error |-> lb.result.error,
                                      status |-> None])
                          EXCEPT !.pc = "done"]
       ELSE /\ o_pc = "done"
            /\ http' = [Respond(http, o_result) EXCEPT !.pc = "done"]
    /\ UNCHANGED <<base, client, lb, gf>>

NextHttp ==
    \/ HttpParse
    \/ HttpLookup
    \/ HttpLookupFail
    \/ DeleteExists
    \/ DeleteExistsFail
    \/ DeleteBlob
    \/ DeleteBlobFail
    \/ RenameExists
    \/ RenameExistsFail
    \/ RenameBlob
    \/ RenameBlobFail
    \/ CreateFolder
    \/ SaveContent
    \/ UploadFail
    \/ ListBuckets
    \/ ListBucketsFail
    \/ HttpAnswer

SpecHttp == InitHttp /\ [][NextHttp]_vars

-----------------------------------------------------------------------------
(* Properties *)

\* C1: when list_files has returned and the store raised nothing, every
\* folder of the shallow listing has a prefix entry in the result, and that
\* entry carries the latest updated value among the deep-listing objects of
\* the folder, or the empty string when none of them has one.
C1_FolderCarriesLatest ==
    (Done /\ ~StoreFailed) =>
        \A i \in 1..Len(prefixes) :
            \E j \in 1..Len(result.prefixes) :
                /\ result.prefixes[j].prefixes.name = prefixes[i]
                /\ result.prefixes[j].prefixes.updatedAt = ExpectedUpdatedAt(prefixes[i])

\* C2 (as claimed): when the deep listing raises after a shallow listing
\* with common prefixes, the failure reaches the caller of list_files.
C2_DeepFailureSurfaces ==
    (Done /\ caught = "deep") => result = Raised

\* C2 (amended): when the deep listing raises after a shallow listing with
\* common prefixes, list_files logs the failure once and returns the empty
\* list; it never returns a dict, with or without folder timestamps.
C2_DeepFailureReturnsEmptyList ==
    caught = "deep" =>
        /\ Done
        /\ prefixes # <<>>
        /\ result.kind = "list"
        /\ result.prefixes = <<>>
        /\ result.files = <<>>
        /\ logged = 1

C2_Witness ==
    /\ Done
    /\ caught = "deep"
    /\ Len(prefixes) = 2
    /\ deepRest = deepAll

\* C3 (as claimed): every store failure during either listing leaves
\* list_files as a failure, never as an empty result.
C3_StoreFailurePropagates ==
    (Done /\ StoreFailed) => (result = Raised /\ result # EmptyList)

\* C3 (amended): no store failure leaves list_files: each one is returned as
\* the empty list.  The empty list is returned only when an exception was
\* caught, so an empty directory, which yields the dict of two empty lists,
\* is never reported as the empty list.
C3_StoreFailureIsEmptyList ==
    Done =>
        /\ StoreFailed => result = EmptyList
        /\ result.kind \in {"list", "dict"}
        /\ result.kind = "list" <=> caught # "none"
        /\ (caught = "none" /\ files = <<>> /\ prefixes = <<>>) => result = EmptyDirectory

C3_Witness ==
    /\ Done
    /\ caught = "shallow"
    /\ Under(store, prefix) = {}
    /\ result = EmptyList

\* C4: once a store listing call has raised, list_files has returned the
\* empty list and has logged exactly one exception.
C4_StoreFailureReturnsEmptyListLoggedOnce ==
    StoreFailed =>
        /\ Done
        /\ result = EmptyList
        /\ logged = 1

C4_Witness ==
    /\ Done
    /\ caught = "deep"
    /\ scanned # <<>>
    /\ deepRest # {}
    /\ logged = 1

\* C5: when the shallow listing returned no common prefixes, the only store
\* call ever made is list_blobs(bucket, prefix, delimiter "/"), and the
\* result has no prefixes; with no direct items either it is exactly
\* {files: [], prefixes: []}.
C5_NoPrefixesOneCall ==
    (pc \in {"deep", "scan", "build"} \/ (Done /\ caught # "shallow")) =>
        (prefixes = <<>> =>
            /\ calls = <<[bucket |-> BucketName, prefix |-> prefix, delimiter |-> Slash]>>
            /\ Done => (result.kind = "dict" /\ result.prefixes = <<>>)
            /\ (Done /\ files = <<>>) => result = EmptyDirectory)

C5_Witness ==
    /\ Done
    /\ caught = "none"
    /\ prefixes = <<>>
    /\ Len(files) = 2
    /\ Len(calls) = 1

\* C6: when the shallow listing returned at least one common prefix,
\* list_files makes exactly two store calls: the delimiter-bounded one, then
\* one with the same bucket and prefix and no delimiter; neither is repeated,
\* whether the deep listing succeeds, raises or the scan raises.
C6_PrefixesTwoCalls ==
    prefixes # <<>> =>
        /\ Len(calls) <= 2
        /\ calls[1] = [bucket |-> BucketName, prefix |-> prefix, delimiter |-> Slash]
        /\ pc \in {"scan", "build", "done"} =>
              /\ Len(calls) = 2
              /\ calls[2] = [bucket |-> BucketName, prefix |-> prefix, delimiter |-> "None"]

C6_Witness ==
    /\ Done
    /\ caught = "none"
    /\ Len(prefixes) = 2
    /\ Len(calls) = 2

\* C7: when list_files has returned and the store raised nothing, the files
\* of the result are the entries of the shallow listing's direct items, one
\* per item, whatever the deep listing held.
C7_FilesFromShallowListingAlone ==
    (Done /\ ~StoreFailed) =>
        /\ result.kind = "dict"
        /\ Len(result.files) = Len(files)
        /\ \A i \in 1..Len(files) : result.files[i] = FileEntry(files[i])

\* C8: a scan step that takes a blob without an updated value leaves
\* prefix_latest_updated as it was, and no scan step raises: the blobs that
\* follow are aggregated.
C8_AbsentUpdatedLeavesMaximum ==
    [][(pc = "scan" /\ scanned' # scanned) =>
          /\ Taken.updated = None => prefix_latest_updated' = prefix_latest_updated
          /\ caught' # "type"]_vars

\* C9: when list_files has returned and the store raised nothing, the result
\* has one prefix entry per common prefix and one file entry per direct
\* item, each in the order of the shallow listing.
C9_OneEntryEachInOrder ==
    (Done /\ ~StoreFailed) =>
        /\ Len(result.prefixes) = Len(prefixes)
        /\ \A i \in 1..Len(prefixes) : result.prefixes[i].prefixes.name = prefixes[i]
        /\ Len(result.files) = Len(files)
        /\ \A i \in 1..Len(files) : result.files[i].items.name = files[i].name

\* C10: every prefix entry of a result is named by the requested prefix, one
\* path segment (which holds no '/') and a trailing '/'.
C10_PrefixEntriesOneLevelBelow ==
    \A j \in 1..Len(result.prefixes) : OneLevelBelow(result.prefixes[j].prefixes.name)

C10_Witness ==
    /\ Done
    /\ prefix = <<"a", "/">>
    /\ Len(result.prefixes) = 1
    /\ \E b \in deepAll : Len(b.name) > Len(result.prefixes[1].prefixes.name)

\* C11: in every result, no file entry is named like a common prefix of the
\* shallow listing or like anything but a direct item of it, and no prefix
\* entry is named like a direct item or like anything but a common prefix.
C11_FilesAndPrefixesApart ==
    /\ \A i \in 1..Len(result.files) :
          /\ ~InList(result.files[i].items.name, prefixes)
          /\ \E k \in 1..Len(files) : files[k].name = result.files[i].items.name
    /\ \A j \in 1..Len(result.prefixes) :
          /\ \A k \in 1..Len(files) : files[k].name # result.prefixes[j].prefixes.name
          /\ InList(result.prefixes[j].prefixes.name, prefixes)

C11_Witness ==
    /\ Done
    /\ result.kind = "dict"
    /\ Len(result.files) = 2
    /\ Len(result.prefixes) = 1

\* C13 (as claimed): for a bucket the store does not know, or a prefix no
\* object starts with, list_files raises nothing and reports zero results as
\* it does for an empty directory, with no error logged.
C13_MissingIsZeroResultsNotError ==
    (Done /\ Under(store, prefix) = {} /\ (~bucket_exists \/ caught = "none")) =>
        /\ result = EmptyDirectory
        /\ logged = 0

\* C13 (amended): list_files raises nothing for either.  A prefix no object
\* starts with yields {files: [], prefixes: []} and logs nothing; for a
\* bucket the store does not know the store raises at the first listing, and
\* list_files handles that as an error: one exception logged, [] returned.
C13_MissingPrefixEmptyMissingBucketError ==
    /\ ~bucket_exists => (pc \in {"start", "done"} /\ Len(calls) <= 1)
    /\ (Done /\ Under(store, prefix) = {}) =>
          /\ result.kind \in {"dict", "list"}
          /\ (bucket_exists /\ caught = "none") => (result = EmptyDirectory /\ logged = 0)
          /\ ~bucket_exists => (result = EmptyList /\ logged = 1 /\ caught = "shallow")

C13_Witness ==
    /\ Done
    /\ ~bucket_exists
    /\ result = EmptyList

\* C14: a listing call without delimiter is made only as the second call of
\* the request, after the delimiter-bounded call has been consumed whole
\* (files and blobs.prefixes hold all it lists and stay as they are) and
\* only when blobs.prefixes is not empty; the delimiter-bounded call is made
\* only as the first.
C14_DeepListingOnlyAfterShallow ==
    [][calls' # calls =>
          /\ calls' = Append(calls, calls'[Len(calls')])
          /\ calls'[Len(calls')].delimiter = Slash => (calls = <<>> /\ pc = "start")
          /\ calls'[Len(calls')].delimiter = "None" =>
                /\ pc = "deep"
                /\ Len(calls) = 1
                /\ calls[1].delimiter = Slash
                /\ prefixes # <<>>
                /\ {files[i] : i \in 1..Len(files)} = DirectItems(store, prefix)
                /\ {prefixes[i] : i \in 1..Len(prefixes)} = CommonPrefixes(store, prefix)
                /\ files' = files
                /\ prefixes' = prefixes]_vars

C14_Witness ==
    /\ pc = "scan"
    /\ Len(calls) = 2
    /\ files # <<>>
    /\ prefixes # <<>>
    /\ scanned = <<>>

\* C17: when list_files has returned and the store raised nothing, an object
\* of the shallow listing named exactly like the requested prefix has its
\* ordinary file entry in the result; and the scan step that takes the
\* object named like the prefix leaves prefix_latest_updated as it was.
C17_MarkerIsOrdinaryFile ==
    /\ [](\A i \in 1..Len(files) :
            (Done /\ ~StoreFailed /\ prefix # <<>> /\ files[i].name = prefix) =>
                /\ result.kind = "dict"
                /\ \E j \in 1..Len(result.files) : result.files[j] = FileEntry(files[i]))
    /\ [][(pc = "scan" /\ scanned' # scanned /\ Taken.name = prefix) =>
             prefix_latest_updated' = prefix_latest_updated]_vars

\* C16: once the calling layer has cancelled a request, whether before its
\* first store call or with the first call made and the second still to
\* make, list_files makes no further store call and returns no result.
C16_CancelAtStoreCallEndsRequest ==
    /\ [](cancel_at \in {"start", "deep"} => result = Pending)
    /\ [][(cancel_at \in {"start", "deep"}) => calls' = calls]_vars

RECURSIVE ScanAlone(_, _)
\* the scan of the blobs sc by a call that runs alone, from dictionary d
ScanAlone(d, sc) ==
    IF sc = <<>> THEN [raised |-> FALSE, d |-> d]
    ELSE IF CompareRaises(d, Head(sc)) THEN [raised |-> TRUE, d |-> d]
    ELSE ScanAlone(Aggregate(d, Head(sc)), Tail(sc))

\* what a call that runs alone returns for the listings of the running request
AloneResult ==
    IF ScanAlone(<<>>, scanned).raised
    THEN EmptyList
    ELSE ListingResult(ScanAlone(<<>>, scanned).d, prefixes, files)

BothDone == Done /\ parked.pc = "done"

SameListings ==
    /\ prefix = parked.prefix
    /\ files = parked.files
    /\ prefixes = parked.prefixes
    /\ scanned = parked.scanned

C15_InterleavedAsAlone ==
    Done =>
        /\ {files[i] : i \in 1..Len(files)} = DirectItems(store, prefix)
        /\ {prefixes[i] : i \in 1..Len(prefixes)} = CommonPrefixes(store, prefix)
        /\ prefixes # <<>> => deepAll = Under(store, prefix)
        /\ result = AloneResult

C15_Witness ==
    /\ BothDone
    /\ result.kind = "dict"
    /\ parked.result.kind = "list"
    /\ prefix = parked.prefix

OpDone(op) == o_op.name = op /\ o_pc = "done"

\* C18: delete_file calls the store's delete only for a path that is not
\* empty and does not end in '/', and only after exists() answered true.
\* When it has returned: for an empty path or one ending in '/' it returned
\* the error 'Deleting Folder/Bucket is not allowed' with status 404 and
\* made no blob handle; when exists() answered false it returned 'File not
\* found' with status 404 and did not call delete; when the delete went
\* through it returned {success: True} and the object is gone.
C18_DeleteOnlyExistingFile ==
    o_op.name = "delete_file" =>
        /\ Called("delete") =>
              /\ o_op.path # <<>>
              /\ o_op.path[Len(o_op.path)] # Slash
              /\ o_trace = <<"bucket", "blob", "exists:True", "delete">>
        /\ (o_pc = "done" /\ (o_op.path = <<>> \/ o_op.path[Len(o_op.path)] = Slash)) =>
              /\ o_result = [NoResult EXCEPT !.kind = "dict", !.status = 404,
                               !.error = "Deleting Folder/Bucket is not allowed"]
              /\ ~Called("blob")
        /\ (o_pc = "done" /\ Called("exists:False")) =>
              /\ o_result = [NoResult EXCEPT !.kind = "dict", !.status = 404,
                               !.error = "File not found"]
              /\ ~Called("delete")
        /\ (o_pc = "done" /\ Called("delete") /\ o_raised = "") =>
              /\ o_result = [NoResult EXCEPT !.kind = "dict", !.success = TRUE]
              /\ ~Exists(store, o_op.path)

C18_Witness ==
    /\ OpDone("delete_file")
    /\ o_trace = <<"bucket", "blob", "exists:True", "delete">>
    /\ o_result.success
    /\ store # {}

\* C19: rename_file calls the store's rename only after exists() on the
\* source answered true.  When it has returned: if exists() answered false
\* it returned 'Source file <name> not found' with status 404, naming the
\* source, and did not call rename; if the rename went through it returned
\* the new object's name, the bucket and success = True, and the store
\* holds the object under the new name and no longer under the old.
C19_RenameOnlyExistingSource ==
    o_op.name = "rename_file" =>
        /\ Called("rename_blob") =>
              o_trace = <<"bucket", "blob", "exists:True", "rename_blob">>
        /\ (o_pc = "done" /\ Called("exists:False")) =>
              /\ o_result = [NoResult EXCEPT !.kind = "dict", !.status = 404,
                               !.error = "Source file {blob_name} not found",
                               !.about = o_op.path]
              /\ ~Called("rename_blob")
        /\ (o_pc = "done" /\ Called("rename_blob") /\ o_raised = "") =>
              /\ o_result = [NoResult EXCEPT !.kind = "dict", !.name = o_op.arg,
                               !.bucket = BucketName, !.success = TRUE]
              /\ Exists(store, o_op.arg)
              /\ ~Exists(store, o_op.path)

C19_Witness ==
    /\ OpDone("rename_file")
    /\ o_trace = <<"bucket", "blob", "exists:True", "rename_blob">>
    /\ o_result.success
    /\ Cardinality(store) = 2

\* C20: a call of create_folder, delete_file, rename_file or save_content
\* during which the store raised has returned a dict whose error is the
\* message of the exception, with status 500 unless it is create_folder,
\* and has logged one exception; a call during which the store raised
\* nothing has logged none.
C20_StoreFailureIsErrorDictLoggedOnce ==
    o_pc = "done" =>
        /\ o_raised # "" =>
              /\ o_result.kind = "dict"
              /\ o_result.error = o_raised
              /\ ~o_result.success
              /\ o_op.name \in {"delete_file", "rename_file", "save_content"} =>
                    o_result.status = 500
              /\ o_logged = 1
        /\ o_raised = "" => o_logged = 0

C20_Witness ==
    /\ OpDone("delete_file")
    /\ o_raised = "ServiceUnavailable"
    /\ Called("delete")
    /\ o_logged = 1

\* C21: a construction of Client has raised ValueError exactly when one of
\* access_token, project_id and region_id was not in the credentials, and
\* has made a Client exactly when all three were; the Client made holds the
\* three values given.
C21_ClientNeedsAllThreeCredentials ==
    client.pc \in {"raised", "constructed"} =>
        /\ client.pc = "raised" <=>
              (\E k \in {"access_token", "project_id", "region_id"} :
                   k \notin DOMAIN client.credentials)
        /\ client.pc = "raised" => (client.raised = "ValueError" /\ client.fields = <<>>)
        /\ client.pc = "constructed" =>
              /\ client.raised = ""
              /\ client.fields._access_token = client.credentials["access_token"]
              /\ client.fields.project_id = client.credentials["project_id"]
              /\ client.fields.region_id = client.credentials["region_id"]

C21_Witness ==
    /\ client.pc = "raised"
    /\ DOMAIN client.credentials = {"access_token", "project_id", "config_error"}

\* the name create_folder is to write for its arguments
FolderObjectName ==
    IF o_op.path = <<>>
    THEN o_op.arg \o <<"/">>
    ELSE o_op.path \o <<"/">> \o o_op.arg \o <<"/">>

\* C22: the step in which create_folder returns without a store failure
\* makes one upload; after it the store holds an object named folder_name +
\* '/' for an empty path and path + '/' + folder_name + '/' otherwise, of
\* size 0, every object of another name is as it was, and the dict returned
\* has that name and size '0'.
C22_CreateFolderWritesOneMarker ==
    [][(o_op.name = "create_folder" /\ o_pc = "start" /\ o_pc' = "done" /\ o_raised' = "") =>
          /\ Cardinality({ i \in 1..Len(o_trace') : o_trace'[i] = "upload_from_string" }) = 1
          /\ \E b \in store' : b.name = FolderObjectName /\ size(b) = 0
          /\ { b \in store' : b.name # FolderObjectName }
                = { b \in store : b.name # FolderObjectName }
          /\ o_result'.kind = "dict"
          /\ o_result'.error = ""
          /\ o_result'.name = FolderObjectName
          /\ o_result'.size = "0"]_vars

C22_Witness ==
    /\ OpDone("create_folder")
    /\ o_op.path = <<"a", "/">>
    /\ o_raised = ""
    /\ o_result.name = <<"a", "/", "/", "b", "/">>
    /\ Exists(store, <<"a", "/", "/", "b", "/">>)
    /\ Cardinality(store) = 3

\* C23: a get_file call that has returned and met no exception returned the
\* base64 text of the object's bytes for format 'base64', the value
\* json.loads makes of the object's text for format 'json', and the
\* object's text for any other format, None included, and logged nothing;
\* a call during which the download, the decoding or the parsing raised,
\* whatever the format, returned [] and logged the exception once.
C23_GetFileByFormat ==
    gf.pc = "done" =>
        /\ (gf.raised = "" /\ gf.format = "base64") =>
              (gf.result = Str(b64encode(gf.content)) /\ gf.method = "download_as_bytes")
        /\ (gf.raised = "" /\ gf.format = "json") =>
              (gf.result = loads(decode(gf.content)) /\ gf.method = "download_as_text")
        /\ (gf.raised = "" /\ gf.format \notin {"base64", "json"}) =>
              (gf.result = Str(decode(gf.content)) /\ gf.method = "download_as_text")
        /\ gf.raised = "" => gf.logged = 0
        /\ gf.raised # "" => (gf.result = List(<<>>) /\ gf.logged = 1)

C23_Witness ==
    /\ gf.pc = "done"
    /\ gf.format = "base64"
    /\ gf.content = <<77, 97>>
    /\ gf.result = Str(<<"T", "W", "E", "=">>)

\* C24: a list_buckets call the store answered has asked the store for the
\* buckets of the given prefix and has returned a list with one entry per
\* bucket of that listing, in the listing's order, each with the bucket's
\* name and its updated time in ISO format, or '' for a bucket without one.
C24_OneEntryPerBucketInOrder ==
    (lb.pc = "done" /\ lb.raised = "") =>
        /\ lb.calls[Len(lb.calls)] = lb.prefix
        /\ { lb.listing[i] : i \in 1..Len(lb.listing) }
              = { b \in lb.buckets : StartsWith(b.name, lb.prefix) }
        /\ lb.result.kind = "list"
        /\ Len(lb.result.items) = Len(lb.listing)
        /\ \A i \in 1..Len(lb.listing) :
              /\ lb.result.items[i].items.name = lb.listing[i].name
              /\ lb.listing[i].updated = None => lb.result.items[i].items.updated = ""
              /\ lb.listing[i].updated # None =>
                    lb.result.items[i].items.updated = isoformat(lb.listing[i].updated)

C24_Witness ==
    /\ lb.pc = "done"
    /\ lb.prefix = <<"b">>
    /\ Cardinality(lb.buckets) = 3
    /\ Len(lb.result.items) = 2
    /\ lb.result.items[1].items = [name |-> <<"b", "2">>, updated |-> ""]
    /\ lb.result.items[2].items = [name |-> <<"b", "1">>, updated |-> "2023-01-02T00:00:00"]


\* a request of the four writing controllers whose body parses
WriteRequest ==
    /\ http.pc # "none"
    /\ http.request.ctrl \in {"create_folder", "delete_file", "rename_file", "save_content"}
    /\ http.request.body_ok

\* a parameter the controller of the request requires is missing or empty
MissingRequired ==
    LET r == http.request IN
    \/ FalsyString(r.bucket)
    \/ r.ctrl = "create_folder" /\ FalsyPath(r.name)
    \/ r.ctrl = "delete_file" /\ FalsyPath(r.path)
    \/ r.ctrl = "rename_file" /\ (FalsyPath(r.path) \/ FalsyString(r.bucket2) \/ FalsyPath(r.name))
    \/ r.ctrl = "save_content" /\ (FalsyPath(r.path) \/ FalsyPath(r.name))

\* oldBucket and newBucket are both there and differ
CrossBucket ==
    LET r == http.request IN
    /\ r.ctrl = "rename_file"
    /\ ~FalsyString(r.bucket) /\ ~FalsyString(r.bucket2)
    /\ r.bucket.value # r.bucket2.value

\* C25: whenever delete_file returns an error result, DeleteFileController
\* answers with a non-success HTTP status and with the error message the
\* service returned.
C25_DeleteErrorReported ==
    ( /\ http.pc = "done"
      /\ http.request.ctrl = "delete_file"
      /\ o_pc = "done"
      /\ o_result.error # "" )
    => /\ http.status >= 400
       /\ http.body.error = o_result.error

C30_FinishedExactlyOnce ==
    http.pc # "none" => http.finished = (IF http.pc = "done" THEN 1 ELSE 0)

C30_Witness ==
    /\ http.pc = "done"
    /\ http.raised # ""
    /\ http.lookups = 1
    /\ http.finished = 1
    /\ http.status = 500

BothDeletesDone == o_pc = "done" /\ parked.pc = "done"

\* C26: two delete_file calls for the same existing object, interleaved in
\* any way: both return a dict, at most one of them {success: True}, and a
\* call that does not succeed returns an error with status 404 or 500.
C26_AtMostOneDeleteSucceeds ==
    BothDeletesDone
    => /\ ~(o_result.success /\ parked.result.success)
       /\ \A r \in {o_result, parked.result} :
             /\ r.kind = "dict"
             /\ r.success \/ (r.error # "" /\ r.status \in {404, 500})

\* both calls saw the object, one deleted it, the other's delete failed
C26_Witness ==
    /\ BothDeletesDone
    /\ o_trace = <<"bucket", "blob", "exists:True", "delete">>
    /\ parked.trace = <<"bucket", "blob", "exists:True", "delete">>
    /\ parked.result.success
    /\ o_raised = "NotFound"
    /\ o_result.status = 500

\* the store was written between the two listings
WrittenBetween == o_pc = "done" /\ o_result.kind = "dict" /\ o_result.error = ""

\* the deep-listing objects of folder pref that carry a time
TimedUnder(pref) ==
    { b \in deepAll : StartsWith(b.name, pref) /\ b.updated # None }

\* C27: when the store is written between the shallow and the deep listing,
\* the result has exactly the common prefixes of the shallow listing as its
\* prefix entries, and each updatedAt is empty or the updated time of an
\* object the deep listing returned under that folder.
C27_PrefixesOfShallowListing ==
    (Done /\ WrittenBetween /\ ~StoreFailed)
    => /\ result.kind = "dict"
       /\ Len(result.prefixes) = Len(prefixes)
       /\ \A i \in 1..Len(prefixes) :
             /\ result.prefixes[i].prefixes.name = prefixes[i]
             /\ \/ result.prefixes[i].prefixes.updatedAt = ""
                \/ \E b \in TimedUnder(prefixes[i]) :
                      result.prefixes[i].prefixes.updatedAt = isoformat(b.updated)

\* path + '/' + folder_name + '/' of the create_folder call
CreatedFolder == o_op.path \o <<Slash>> \o o_op.arg \o <<Slash>>

\* create_folder has returned its folder information
FolderCreated ==
    /\ o_op.name = "create_folder"
    /\ o_pc = "done"
    /\ o_result.kind = "dict"
    /\ o_result.error = ""

\* C28: after create_folder(bucket, path, folder_name) has succeeded for a
\* non-empty path without a trailing '/', list_files(bucket, path + '/')
\* returns a prefix entry named path + '/' + folder_name + '/' that carries
\* the marker object's updated time, and no file entry for the marker.
C28_CreatedFolderIsListed ==
    (Done /\ FolderCreated /\ ~StoreFailed /\ prefix = o_op.path \o <<Slash>>)
    => /\ result.kind = "dict"
       /\ \E i \in 1..Len(result.prefixes) :
             /\ result.prefixes[i].prefixes.name = CreatedFolder
             /\ \E m \in store :
                   /\ m.name = CreatedFolder
                   /\ m.updated # None
                   /\ result.prefixes[i].prefixes.updatedAt = isoformat(m.updated)
       /\ \A j \in 1..Len(result.files) : result.files[j].items.name # CreatedFolder

=============================================================================
